---- MODULE Spec2Model ----
(***************************************************************************)
(* Layout and pagination engine of fastlabels: chunks, tile and            *)
(* template_tile of label.py, and the tile variant of label-customsize.py. *)
(* Images are opaque: a label is its index in the input list, a page is    *)
(* the list of placements pasted on it before it is saved.                 *)
(***************************************************************************)
EXTENDS Integers, Sequences, FiniteSets, TLC

(* ---------------- bounds of the explored input space ------------------- *)
MaxCanvas == 3
MaxMargin == 2
MaxCell == 2
MaxIms == 5
MaxSkip == 2
MaxCellMargin == 1
MaxRows == 3

(* ---------------- Python arithmetic ------------------------------------ *)
\* math.floor(a / b) on ints, b # 0 (floor of the true quotient)
FloorDiv(a, b) ==
    IF b > 0 THEN a \div b ELSE (0 - a) \div (0 - b)

\* int(a / b) on ints, b # 0 (truncation toward zero)
TruncDiv(a, b) ==
    LET s == IF (a < 0) = (b < 0) THEN 1 ELSE -1
        aa == IF a < 0 THEN 0 - a ELSE a
        bb == IF b < 0 THEN 0 - b ELSE b
    IN  s * (aa \div bb)

\* math.ceil(a / b) on ints, b # 0
CeilDiv(a, b) == 0 - FloorDiv(0 - a, b)

\* a % b on ints, b # 0 (the result has the sign of b)
PyMod(a, b) == a - b * FloorDiv(a, b)

\* range(start, stop, step) for step # 0, as the sequence of its values
RECURSIVE range(_, _, _)
range(start, stop, step) ==
    IF (step > 0 /\ start >= stop) \/ (step < 0 /\ start <= stop)
    THEN << >>
    ELSE << start >> \o range(start + step, stop, step)

\* lst[i : j] for 0 <= i, 0 <= j (0-based, end exclusive, clipped)
Slice(lst, i, j) ==
    LET hi == IF j < Len(lst) THEN j ELSE Len(lst)
    IN  IF i >= hi THEN << >> ELSE SubSeq(lst, i + 1, hi)

(* ---------------- chunks ------------------------------------------------ *)
\* range(0, len(lst), 0) raises ValueError
chunks_raises(n) == n = 0

chunks_short(lst, n) ==
    LET starts == range(0, Len(lst), n)
    IN  [k \in 1..Len(starts) |->
            << TruncDiv(starts[k], n), Slice(lst, starts[k], starts[k] + n - 1) >>]

\* the pairs chunks(lst, n) yields, in order, for n # 0
chunks(lst, n) ==
    LET starts == range(0, Len(lst), n)
    IN  [k \in 1..Len(starts) |->
            << TruncDiv(starts[k], n), Slice(lst, starts[k], starts[k] + n) >>]

(* ---------------- state -------------------------------------------------- *)
VARIABLES
    variant,      \* "label" (label.py) or "customsize" (label-customsize.py)
    simple,       \* main's --simple flag: template_tile instead of tile
    skip_cells,   \* main's --skip-cells option
    ims,          \* the images handed to tile or template_tile
    items,        \* len(items): the module-level item list of label-customsize.py
    target_size,  \* canvas <<width, height>>
    MARGIN,       \* page margin <<horizontal, vertical>>
    imsize,       \* size of one image <<width, height>>
    cell_size,    \* template cell <<width, height>>
    cell_margin,  \* gap between template cells <<x, y>>
    pc,           \* position in main, tile or template_tile
    l_per_row,
    l_per_col,
    n_pages,      \* the page count tile prints
    pages,        \* the page images tile has saved so far
    ims_per_cell,
    cell_per_row,
    cell_per_col,
    paper,        \* the cells template_tile has pasted so far
    error,        \* the exception that ended the run, or "none"
    reader,       \* the rows csv.DictReader yields to load_csv
    loaded,       \* the items list load_csv builds
    printed       \* the rows load_csv has printed after "Ignoring row"

inputs == << variant, simple, skip_cells, ims, items, target_size, MARGIN,
             imsize, cell_size, cell_margin >>
tile_state == << l_per_row, l_per_col, n_pages, pages >>
template_state == << ims_per_cell, cell_per_row, cell_per_col, paper >>
load_state == << reader, loaded, printed >>
vars == << variant, simple, skip_cells, ims, items, target_size, MARGIN,
           imsize, cell_size, cell_margin, pc, l_per_row, l_per_col, n_pages,
           pages, ims_per_cell, cell_per_row, cell_per_col, paper, error,
           reader, loaded, printed >>

Sizes == (1..MaxCanvas) \X (1..MaxCanvas)
Margins == (0..MaxMargin) \X (0..MaxMargin)
Cells == (1..MaxCell) \X (1..MaxCell)
Images(n) == [i \in 1..n |-> i]

\* runs of tile: both files, every small canvas, margin and label size
TileInputs ==
    [variant : {"label"}, simple : {FALSE}, skip_cells : 0..MaxSkip,
     ims : {Images(n) : n \in 0..MaxIms}, items : {0},
     target_size : Sizes, MARGIN : Margins, imsize : Cells,
     cell_size : {<<1, 1>>}, cell_margin : {<<0, 0>>}]
    \cup
    [variant : {"customsize"}, simple : {FALSE}, skip_cells : {0},
     ims : {Images(n) : n \in 0..MaxIms}, items : 0..MaxIms,
     target_size : Sizes, MARGIN : Margins, imsize : Cells,
     cell_size : {<<1, 1>>}, cell_margin : {<<0, 0>>}]

\* runs of template_tile (label.py, --simple): cells as high as the images,
\* the same gap between cells on both axes
TemplateInputs ==
    [variant : {"label"}, simple : {TRUE}, skip_cells : 0..MaxSkip,
     ims : {Images(n) : n \in 0..MaxIms}, items : {0},
     target_size : Sizes, MARGIN : Margins,
     imsize : (1..MaxCell) \X {1},
     cell_size : (1..MaxCanvas) \X {1},
     cell_margin : {<<g, g>> : g \in 0..MaxCellMargin}]

\* the worked examples: 37 labels at 12 per page; the 2550x3300 canvas with
\* margin 56 and 236x285 labels; three 100px images in a 300px cell;
\* skip_cells = 5 on a grid of 10 cells per row; and 3px images in a 10px
\* cell, whose spacing of 3.5px is not a whole number of pixels
ScenarioInputs ==
    { [variant |-> v, simple |-> FALSE, skip_cells |-> 0, ims |-> Images(37),
       items |-> 37, target_size |-> <<4, 3>>, MARGIN |-> <<0, 0>>,
       imsize |-> <<1, 1>>, cell_size |-> <<1, 1>>, cell_margin |-> <<0, 0>>]
      : v \in {"label", "customsize"} }
    \cup
    { [variant |-> v, simple |-> FALSE, skip_cells |-> 0, ims |-> Images(111),
       items |-> 111, target_size |-> <<2550, 3300>>, MARGIN |-> <<56, 56>>,
       imsize |-> <<236, 285>>, cell_size |-> <<1, 1>>, cell_margin |-> <<0, 0>>]
      : v \in {"label", "customsize"} }
    \cup
    { [variant |-> "label", simple |-> TRUE, skip_cells |-> 0, ims |-> Images(n),
       items |-> 0, target_size |-> <<700, 300>>, MARGIN |-> <<10, 10>>,
       imsize |-> <<100, 80>>, cell_size |-> <<300, 80>>, cell_margin |-> <<20, 5>>]
      : n \in {3, 4, 5} }
    \cup
    { [variant |-> "label", simple |-> TRUE, skip_cells |-> 5, ims |-> Images(2),
       items |-> 0, target_size |-> <<20, 2>>, MARGIN |-> <<0, 0>>,
       imsize |-> <<1, 1>>, cell_size |-> <<2, 1>>, cell_margin |-> <<0, 0>>] }
    \cup
    { [variant |-> "label", simple |-> TRUE, skip_cells |-> 0, ims |-> Images(n),
       items |-> 0, target_size |-> <<24, 4>>, MARGIN |-> <<1, 1>>,
       imsize |-> <<3, 2>>, cell_size |-> <<10, 2>>, cell_margin |-> <<2, 0>>]
      : n \in {3, 5} }

Init ==
    /\ \E a \in TileInputs \cup TemplateInputs \cup ScenarioInputs :
          /\ variant = a.variant
          /\ simple = a.simple
          /\ skip_cells = a.skip_cells
          /\ ims = a.ims
          /\ items = a.items
          /\ target_size = a.target_size
          /\ MARGIN = a.MARGIN
          /\ imsize = a.imsize
          /\ cell_size = a.cell_size
          /\ cell_margin = a.cell_margin
    /\ pc = "main"
    /\ l_per_row = 0
    /\ l_per_col = 0
    /\ n_pages = 0
    /\ pages = << >>
    /\ ims_per_cell = 0
    /\ cell_per_row = 0
    /\ cell_per_col = 0
    /\ paper = << >>
    /\ error = "none"
    /\ reader = << >>
    /\ loaded = << >>
    /\ printed = << >>

(* ---------------- main --------------------------------------------------- *)
\* main hands the labels to tile, or with --simple to template_tile;
\* skip_cells is passed to template_tile only
main ==
    /\ pc = "main"
    /\ pc' = IF simple THEN "template" ELSE "tile"
    /\ UNCHANGED << inputs, load_state, tile_state, template_state, error >>

(* ---------------- tile --------------------------------------------------- *)
l_per_trunc(size, margin, cell) == TruncDiv(size - 2 * margin, cell)

l_per_ceil(size, margin, cell) == CeilDiv(size - 2 * margin, cell)

l_per(size, margin, cell) == FloorDiv(size - 2 * margin, cell)

\* the length n_pages is computed from: len(ims) in label.py, len(items) in
\* label-customsize.py
n_pages_len == IF variant = "customsize" THEN items ELSE Len(ims)

\* tile up to the print of the grid: the grid and the page count
TileBegin ==
    /\ pc = "tile"
    /\ LET cols == l_per(target_size[1], MARGIN[1], imsize[1])
           rows == l_per(target_size[2], MARGIN[2], imsize[2])
       IN  /\ l_per_row' = cols
           /\ l_per_col' = rows
           /\ IF cols * rows = 0
              THEN /\ error' = "ZeroDivisionError"
                   /\ pc' = "error"
                   /\ n_pages' = n_pages
              ELSE /\ n_pages' = CeilDiv(n_pages_len, cols * rows)
                   /\ error' = error
                   /\ pc' = "pages"
    /\ UNCHANGED << inputs, load_state, pages, template_state >>

\* the pixel at which the label of grid position (col, row) is pasted
tile_xy(col, row) ==
    << col * imsize[1] + MARGIN[1], row * imsize[2] + MARGIN[2] >>

\* the placement of the label at local index i of a page
place(i, label) ==
    LET col == PyMod(i, l_per_row)
        row == FloorDiv(i, l_per_row)
    IN  [label |-> label, i |-> i, col |-> col, row |-> row,
         x |-> tile_xy(col, row)[1], y |-> tile_xy(col, row)[2]]

\* one iteration of the loop over chunks(ims, l_per_col * l_per_row):
\* a page is filled and saved
TilePage ==
    /\ pc = "pages"
    /\ LET ch == chunks(ims, l_per_col * l_per_row)
           k == Len(pages) + 1
       IN  /\ k <= Len(ch)
           /\ pages' = Append(pages,
                  [pageno |-> ch[k][1],
                   labels |-> [j \in 1..Len(ch[k][2]) |-> place(j - 1, ch[k][2][j])]])
    /\ UNCHANGED << inputs, load_state, pc, l_per_row, l_per_col, n_pages,
                    template_state, error >>

\* chunks is exhausted: tile returns
TileEnd ==
    /\ pc = "pages"
    /\ Len(pages) = Len(chunks(ims, l_per_col * l_per_row))
    /\ pc' = "done"
    /\ UNCHANGED << inputs, load_state, tile_state, template_state, error >>

(* ---------------- template_tile ------------------------------------------ *)
cell_per_nogap(size, gap, margin, cell) ==
    FloorDiv(size + gap - 2 * margin, cell)

cell_per(size, gap, margin, cell) ==
    FloorDiv(size + gap - 2 * margin, cell + gap)

\* template_tile up to the creation of the paper
TemplateBegin ==
    /\ pc = "template"
    /\ IF Len(ims) = 0
       THEN /\ error' = "IndexError"
            /\ pc' = "error"
            /\ UNCHANGED << ims_per_cell, cell_per_row, cell_per_col >>
       ELSE /\ ims_per_cell' = FloorDiv(cell_size[1], imsize[1])
            /\ cell_per_row' =
                  cell_per(target_size[1], cell_margin[1], MARGIN[1], cell_size[1])
            /\ cell_per_col' =
                  cell_per(target_size[2], cell_margin[2], MARGIN[2], cell_size[2])
            /\ error' = error
            /\ pc' = "cells"
    /\ UNCHANGED << inputs, load_state, tile_state, paper >>

\* im_x_center as the fraction <<numerator, denominator>>, for ims_per_cell # 1:
\* imsize[0] / 2 + imno * ((cell_size[0] - imsize[0]) / (ims_per_cell - 1))
im_x_center(imno) ==
    << imsize[1] * (ims_per_cell - 1) + 2 * imno * (cell_size[1] - imsize[1]),
       2 * (ims_per_cell - 1) >>

im_x_nocenter(imno) ==
    LET c == im_x_center(imno)
    IN  TruncDiv(c[1], c[2])

\* int(im_x_center - .5 * imsize[0])
im_x(imno) ==
    LET c == im_x_center(imno)
    IN  TruncDiv(2 * c[1] - imsize[1] * c[2], 2 * c[2])

\* the pixel at which the cell of grid position (col, row) is pasted
cell_xy(col, row) ==
    << MARGIN[1] + (cell_size[1] + cell_margin[1]) * col,
       MARGIN[2] + (cell_size[2] + cell_margin[2]) * row >>

\* the cell built and pasted for the chunk <<cellno, cell_ims>>
cell(chunk) ==
    LET cellno == chunk[1] + skip_cells
        col == PyMod(cellno, cell_per_row)
        row == FloorDiv(cellno, cell_per_row)
    IN  [chunkno |-> chunk[1], cellno |-> cellno, col |-> col, row |-> row,
         cellx |-> cell_xy(col, row)[1], celly |-> cell_xy(col, row)[2],
         ims |-> [j \in 1..Len(chunk[2]) |->
                    [im |-> chunk[2][j], imno |-> j - 1,
                     im_x_center |-> im_x_center(j - 1), im_x |-> im_x(j - 1)]]]

\* one iteration of the loop over chunks(ims, ims_per_cell)
TemplateCell ==
    /\ pc = "cells"
    /\ IF chunks_raises(ims_per_cell)
       THEN /\ error' = "ValueError"
            /\ pc' = "error"
            /\ paper' = paper
       ELSE LET ch == chunks(ims, ims_per_cell)
                k == Len(paper) + 1
            IN  /\ k <= Len(ch)
                /\ IF ims_per_cell - 1 = 0 \/ cell_per_row = 0
                   THEN /\ error' = "ZeroDivisionError"
                        /\ pc' = "error"
                        /\ paper' = paper
                   ELSE /\ paper' = Append(paper, cell(ch[k]))
                        /\ UNCHANGED << pc, error >>
    /\ UNCHANGED << inputs, load_state, tile_state, ims_per_cell, cell_per_row,
                    cell_per_col >>

\* chunks is exhausted: template_tile returns the paper and main saves it
TemplateEnd ==
    /\ pc = "cells"
    /\ ~chunks_raises(ims_per_cell)
    /\ Len(paper) = Len(chunks(ims, ims_per_cell))
    /\ pc' = "done"
    /\ UNCHANGED << inputs, load_state, tile_state, template_state, error >>

Next ==
    \/ main
    \/ TileBegin
    \/ TilePage
    \/ TileEnd
    \/ TemplateBegin
    \/ TemplateCell
    \/ TemplateEnd

Spec == Init /\ [][Next]_vars
(* ---------------- load_csv ------------------------------------------------ *)
\* the value csv.DictReader gives a field the line is too short for
None == "None"

\* the truth value Python gives a field: None and the empty string are false
truthy(v) == v # "" /\ v # None

\* the rows read: category present or empty, subcat and gauge present, empty
\* or missing; notes carries the line number, which tells equal rows apart
RowValues ==
    [category : {"", "screw"}, subcat : {"", "wood", None}, style : {"flat"},
     gauge : {"", "M3", None}, length : {"10"}, notes : {0}]

\* the rows a file of lines 1..n gives, line k being f[k]
Reader(n, f) == [k \in 1..n |-> [f[k] EXCEPT !.notes = k]]

InitLoad ==
    /\ variant \in {"label", "customsize"}
    /\ \E n \in 0..MaxRows : \E f \in [1..n -> RowValues] : reader = Reader(n, f)
    /\ loaded = << >>
    /\ printed = << >>
    /\ pc = "load_csv"
    /\ simple = FALSE
    /\ skip_cells = 0
    /\ ims = << >>
    /\ items = 0
    /\ target_size = <<1, 1>>
    /\ MARGIN = <<0, 0>>
    /\ imsize = <<1, 1>>
    /\ cell_size = <<1, 1>>
    /\ cell_margin = <<0, 0>>
    /\ l_per_row = 0
    /\ l_per_col = 0
    /\ n_pages = 0
    /\ pages = << >>
    /\ ims_per_cell = 0
    /\ cell_per_row = 0
    /\ cell_per_col = 0
    /\ paper = << >>
    /\ error = "none"

row_ok_nosubcat(row) == truthy(row.gauge) /\ truthy(row.category)

\* row["gauge"] and row["category"] and row["subcat"]
row_ok(row) == truthy(row.gauge) /\ truthy(row.category) /\ truthy(row.subcat)

\* one iteration of the loop over the reader: the row is appended to items,
\* or printed after "Ignoring row"
LoadRow ==
    /\ pc = "load_csv"
    /\ LET k == Len(loaded) + Len(printed) + 1
       IN  /\ k <= Len(reader)
           /\ IF row_ok(reader[k])
              THEN /\ loaded' = Append(loaded, reader[k])
                   /\ printed' = printed
              ELSE /\ printed' = Append(printed, reader[k])
                   /\ loaded' = loaded
    /\ UNCHANGED << inputs, reader, tile_state, template_state, pc, error >>

\* the reader is exhausted: load_csv returns items
LoadEnd ==
    /\ pc = "load_csv"
    /\ Len(loaded) + Len(printed) = Len(reader)
    /\ pc' = "loaded"
    /\ UNCHANGED << inputs, load_state, tile_state, template_state, error >>

NextLoad == LoadRow \/ LoadEnd

SpecLoad == InitLoad /\ [][NextLoad]_vars

(* ---------------- properties ---------------------------------------------- *)
RECURSIVE Concat(_)
Concat(seqs) ==
    IF seqs = << >> THEN << >> ELSE Head(seqs) \o Concat(Tail(seqs))

Min(a, b) == IF a < b THEN a ELSE b

\* m is ceil(len / c), for c >= 1, stated without division
IsCeil(m, len, c) == m * c >= len /\ (m - 1) * c < len /\ m >= 0

\* q is floor(a / b), for b >= 1, stated without division
IsFloor(q, a, b) == q * b <= a /\ a < (q + 1) * b

\* the chunk size the running function has handed to chunks
chunk_size == IF simple THEN ims_per_cell ELSE l_per_col * l_per_row
chunks_called == pc \in {"pages", "cells", "done"}

tile_ran == ~simple /\ pc \in {"pages", "done", "error"}
tile_done == ~simple /\ pc = "done"

\* C1: for a capacity c >= 1, chunks(U, c) yields in order exactly the pairs
\* (k, U[k*c : min((k+1)*c, len(U))]) for k = 0 .. ceil(len(U)/c) - 1: every
\* group but the last has c elements, the last has between 1 and c, the page
\* indices count up from 0, and the groups concatenated give U back.
C1_ChunksPartition ==
    (chunks_called /\ chunk_size >= 1) =>
        LET c == chunk_size
            ch == chunks(ims, c)
        IN  /\ IsCeil(Len(ch), Len(ims), c)
            /\ \A k \in 1..Len(ch) :
                  /\ ch[k][1] = k - 1
                  /\ Len(ch[k][2]) = Min(c, Len(ims) - (k - 1) * c)
                  /\ Len(ch[k][2]) >= 1
                  /\ k < Len(ch) => Len(ch[k][2]) = c
                  /\ \A j \in 1..Len(ch[k][2]) : ch[k][2][j] = ims[(k - 1) * c + j]
            /\ Concat([k \in 1..Len(ch) |-> ch[k][2]]) = ims

\* chunks has split a list into several groups, the last one shorter
C1_Witness ==
    /\ pc = "done"
    /\ chunk_size >= 2
    /\ Len(ims) > 2 * chunk_size
    /\ Len(ims) % chunk_size # 0

\* C2: when tile has run with a grid capacity cols*rows >= 1, the number of
\* pages it has written is ceil(len(ims) / (cols*rows)) and equals the page
\* count n_pages it printed.
C2_PagesWritten ==
    (tile_done /\ l_per_row * l_per_col >= 1) =>
        /\ IsCeil(Len(pages), Len(ims), l_per_row * l_per_col)
        /\ Len(pages) = n_pages

\* some axis of the grid fits no cell although the usable area is not negative
CellExceedsUsable ==
    \/ /\ target_size[1] - 2 * MARGIN[1] >= 0
       /\ target_size[1] - 2 * MARGIN[1] < imsize[1]
    \/ /\ target_size[2] - 2 * MARGIN[2] >= 0
       /\ target_size[2] - 2 * MARGIN[2] < imsize[2]

\* C3: when the grid capacity of tile is zero (cols * rows = 0: the label is
\* larger than the usable canvas area) the run ends in an error and no page
\* image is written.
C3_ZeroCapacityFails ==
    (tile_ran /\ (l_per_row * l_per_col = 0 \/ CellExceedsUsable)) =>
        /\ pc = "error"
        /\ error # "none"
        /\ pages = << >>

\* tile has been given labels and a label wider than the usable canvas
C3_Witness ==
    /\ tile_ran
    /\ l_per_row = 0
    /\ l_per_col >= 1
    /\ Len(ims) >= 1
    /\ pc = "error"

some_label_placed == \E k \in 1..Len(pages) : Len(pages[k].labels) >= 1

\* C4: whenever tile has placed a label on a page, cells_per_row >= 1 and
\* cells_per_col >= 1; with degenerate margins no label is placed and the run
\* fails, even when the product cols*rows is positive.
C4_GridInvariant ==
    (~simple /\ some_label_placed) => (l_per_row >= 1 /\ l_per_col >= 1)

\* every page but the last has cap labels, the last has between 1 and cap
pages_hold(cap) ==
    \A k \in 1..Len(pages) :
        /\ Len(pages[k].labels) <= cap
        /\ Len(pages[k].labels) >= 1
        /\ k < Len(pages) => Len(pages[k].labels) = cap

\* C5: the grid tile uses is cols = floor((canvas.width - 2*margin.horizontal)
\* / cell.width), rows = floor((canvas.height - 2*margin.vertical) /
\* cell.height), and pages are cut at cols*rows labels; the 2550x3300 canvas
\* with margin 56 and 236x285 cells gives 10 columns and 11 rows.
C5_GridCapacity ==
    tile_ran =>
        /\ IsFloor(l_per_row, target_size[1] - 2 * MARGIN[1], imsize[1])
        /\ IsFloor(l_per_col, target_size[2] - 2 * MARGIN[2], imsize[2])
        /\ pages_hold(l_per_row * l_per_col)
        /\ (target_size = <<2550, 3300>> /\ MARGIN = <<56, 56>>
               /\ imsize = <<236, 285>>)
           => (l_per_row = 10 /\ l_per_col = 11 /\ l_per_row * l_per_col = 110)

\* tile has cut a page at the capacity of a grid on which the margins and
\* the rounding matter
C5_Witness ==
    /\ tile_done
    /\ MARGIN[1] >= 1
    /\ (target_size[1] - 2 * MARGIN[1]) % imsize[1] # 0
    /\ l_per_row >= 1
    /\ l_per_col >= 2
    /\ Len(pages) >= 2

template_ran == simple /\ pc \in {"cells", "done"}

\* C6: for every grid position (col, row) with col < cols and row < rows the
\* top-left pixel (x, y) has x >= margin.horizontal, y >= margin.vertical,
\* x + cell.width <= canvas.width - margin.horizontal and y + cell.height <=
\* canvas.height - margin.vertical, in tile and, with the inter-cell margin
\* counted in, in template_tile.
C6_PositionBounds ==
    /\ (~simple /\ pc \in {"pages", "done"}) =>
          \A col \in 0..(l_per_row - 1), row \in 0..(l_per_col - 1) :
              LET xy == tile_xy(col, row)
              IN  /\ xy[1] >= MARGIN[1]
                  /\ xy[2] >= MARGIN[2]
                  /\ xy[1] + imsize[1] <= target_size[1] - MARGIN[1]
                  /\ xy[2] + imsize[2] <= target_size[2] - MARGIN[2]
    /\ template_ran =>
          \A col \in 0..(cell_per_row - 1), row \in 0..(cell_per_col - 1) :
              LET xy == cell_xy(col, row)
              IN  /\ xy[1] >= MARGIN[1]
                  /\ xy[2] >= MARGIN[2]
                  /\ xy[1] + cell_size[1] <= target_size[1] - MARGIN[1]
                  /\ xy[2] + cell_size[2] <= target_size[2] - MARGIN[2]

\* template_tile has pasted a cell in the last column of a grid whose cells
\* are separated by an inter-cell margin
C6_Witness ==
    /\ template_ran
    /\ cell_margin[1] >= 1
    /\ cell_per_row >= 2
    /\ cell_per_col >= 1
    /\ \E k \in 1..Len(paper) :
          /\ paper[k].col = cell_per_row - 1
          /\ paper[k].row < cell_per_col

\* C7: on every page tile writes, the label at local index i is placed at
\* col = i mod cols and row = floor(i / cols), with col < cols and
\* row < rows, so no two labels of a page share a grid position.
C7_RowMajor ==
    ~simple =>
        \A k \in 1..Len(pages) :
            LET ls == pages[k].labels
            IN  /\ \A j \in 1..Len(ls) :
                      /\ ls[j].i = j - 1
                      /\ 0 <= ls[j].col
                      /\ ls[j].col < l_per_row
                      /\ 0 <= ls[j].row
                      /\ ls[j].row < l_per_col
                      /\ ls[j].row * l_per_row + ls[j].col = ls[j].i
                /\ \A j1, j2 \in 1..Len(ls) :
                      (ls[j1].col = ls[j2].col /\ ls[j1].row = ls[j2].row)
                          => j1 = j2

\* C8: with skip_cells = k, the unit (or composed cell) at local index i of
\* the first chunk is placed at grid index i + k, and the units of every
\* later chunk at their local index i.
C8_SkipOffset ==
    /\ ~simple =>
          \A p \in 1..Len(pages) : \A j \in 1..Len(pages[p].labels) :
              LET lb == pages[p].labels[j]
              IN  lb.row * l_per_row + lb.col
                     = IF p = 1 THEN (j - 1) + skip_cells ELSE j - 1
    /\ simple =>
          \A c \in 1..Len(paper) :
              /\ paper[c].row * cell_per_row + paper[c].col
                    = (c - 1) + skip_cells
              /\ (c = 1 /\ skip_cells = 5 /\ cell_per_row = 10)
                    => (paper[c].col = 5 /\ paper[c].row = 0)

\* C9: for every group of n sub-images composed into a cell of width W, the
\* last and possibly shorter group included, center_i + center_(n-1-i) = W.
C9_CenterSymmetry ==
    simple =>
        \A c \in 1..Len(paper) :
            LET g == paper[c].ims
                n == Len(g)
            IN  \A i \in 1..n :
                    LET a == g[i].im_x_center
                        b == g[n + 1 - i].im_x_center
                    IN  a[1] * b[2] + b[1] * a[2] = cell_size[1] * a[2] * b[2]

\* the groups chunks(ims, ims_per_cell) cuts the images into
groups == IF chunks_raises(ims_per_cell) THEN << >> ELSE chunks(ims, ims_per_cell)

\* C10: a cell composed from a group of exactly one sub-image (ims_per_cell
\* is 1, or the last group holds one image) has it centred at
\* x = (cell.width - unit.width) / 2, and composing it never divides by zero.
C10_SingleImage ==
    /\ (simple /\ pc \in {"cells", "done", "error"} /\ Len(ims) >= 1
           /\ ims_per_cell = 1)
          => error # "ZeroDivisionError"
    /\ simple =>
          \A c \in 1..Len(paper) :
              Len(paper[c].ims) = 1
                  => 2 * paper[c].ims[1].im_x = cell_size[1] - imsize[1]

\* round(p / q) for p >= 0, q >= 1 (Python rounds halves to the even integer)
Round(p, q) ==
    LET f == p \div q
        r2 == 2 * (p % q)
    IN  IF r2 < q THEN f
        ELSE IF r2 > q THEN f + 1
        ELSE IF f % 2 = 0 THEN f ELSE f + 1

\* C11: in every group of n > 1 sub-images the i-th one is pasted at
\* x = round(center_i - w/2) with center_i = w/2 + i*(W - w)/(n - 1), n the
\* size of that group: the first at x = 0 and the last at x = W - w.
C11_EvenDistribution ==
    simple =>
        \A c \in 1..Len(paper) :
            LET g == paper[c].ims
                n == Len(g)
            IN  n > 1 =>
                    /\ \A i \in 1..n :
                          g[i].im_x
                             = Round((i - 1) * (cell_size[1] - imsize[1]), n - 1)
                    /\ g[1].im_x = 0
                    /\ g[n].im_x = cell_size[1] - imsize[1]

\* C13: every cell template_tile pastes has a grid index with
\* col < cell_per_row and row < cell_per_col, and its pixel rectangle lies
\* inside the canvas: no image is placed outside the page that is returned.
C13_CellsOnPage ==
    simple =>
        \A c \in 1..Len(paper) :
            /\ 0 <= paper[c].col
            /\ paper[c].col < cell_per_row
            /\ 0 <= paper[c].row
            /\ paper[c].row < cell_per_col
            /\ 0 <= paper[c].cellx
            /\ paper[c].cellx + cell_size[1] <= target_size[1]
            /\ 0 <= paper[c].celly
            /\ paper[c].celly + cell_size[2] <= target_size[2]

\* C14: with ims_per_cell >= 2 every sub-image of every cell is pasted at an
\* offset x_i with 0 <= x_i and x_i + unit.width <= cell.width, and
\* x_(i+1) >= x_i + unit.width: the sub-images of a cell do not overlap.
C14_SubImagesDisjoint ==
    (simple /\ ims_per_cell >= 2) =>
        \A c \in 1..Len(paper) :
            LET g == paper[c].ims
            IN  /\ \A i \in 1..Len(g) :
                      /\ 0 <= g[i].im_x
                      /\ g[i].im_x + imsize[1] <= cell_size[1]
                /\ \A i \in 1..(Len(g) - 1) :
                      g[i + 1].im_x >= g[i].im_x + imsize[1]
                /\ \A i, j \in 1..Len(g) :
                      i < j => g[i].im_x + imsize[1] <= g[j].im_x

\* a full cell of three images has been pasted whose spacing is not a whole
\* number of pixels
C14_Witness ==
    /\ simple
    /\ ims_per_cell >= 3
    /\ (cell_size[1] - imsize[1]) % (ims_per_cell - 1) # 0
    /\ \E c \in 1..Len(paper) : Len(paper[c].ims) = ims_per_cell

\* a record with a non-empty gauge, category and subcat
Complete(r) ==
    /\ r.gauge \notin {"", None}
    /\ r.category \notin {"", None}
    /\ r.subcat \notin {"", None}

Incomplete(r) == ~Complete(r)

\* C12: load_csv returns exactly the records whose gauge, category and subcat
\* are all non-empty, in their original order; every other record is printed
\* and dropped without ending the load, the records after it are still
\* processed, and the loaded count leaves the dropped ones out.
C12_RecordFiltering ==
    pc \in {"load_csv", "loaded"} =>
        LET k == Len(loaded) + Len(printed)
            done == SubSeq(reader, 1, k)
        IN  /\ k <= Len(reader)
            /\ loaded = SelectSeq(done, Complete)
            /\ printed = SelectSeq(done, Incomplete)
            /\ error = "none"
            /\ pc = "loaded" =>
                  /\ k = Len(reader)
                  /\ Len(loaded)
                        = Cardinality({i \in 1..Len(reader) : Complete(reader[i])})

\* load_csv has returned after dropping a record that lacks only its gauge
\* and keeping the records before and after it
C12_Witness ==
    /\ pc = "loaded"
    /\ Len(reader) >= 3
    /\ \E i \in 2..(Len(reader) - 1) :
          /\ reader[i].gauge = ""
          /\ reader[i].category # ""
          /\ truthy(reader[i].subcat)
          /\ Complete(reader[i - 1])
          /\ Complete(reader[i + 1])
    /\ Len(loaded) >= 2
    /\ Len(printed) >= 1
====
